---- MODULE Spec2Model ----
(***************************************************************************)
(* Model of the print job queue of aits-print-server (src/job_queue.py):   *)
(* the SQLite table print_jobs, the store operations of class JobQueue,    *)
(* the start()/stop() control of the worker thread and the dispatch loop   *)
(* _process_queue.  Every SQL statement that is committed on its own is    *)
(* one atomic step; the dispatch loop is cut at each of them, so that      *)
(* submissions, cancel requests and other workers interleave between them. *)
(* The column updated_at is written by every UPDATE and read by nothing;   *)
(* it is not part of the rows of the model.  The HTTP handlers of          *)
(* src/server.py for submit, cancel and stats, and the polling loop of     *)
(* src/odoo_client.py against a remote job source, are modelled by their   *)
(* own actions and have their own specifications.                          *)
(***************************************************************************)
EXTENDS Integers, Sequences, FiniteSets, TLC

\* ------------------------------------------------------------------ bounds
MaxJobs == 1          \* jobs ever submitted
MaxBatchJobs == 2     \* jobs ever submitted in SpecBatch
MaxThreads == 2       \* worker threads that can be alive at the same time
MaxTime == 1          \* last value of the clock
MaxRetriesCfg == 2    \* largest configured max_retries
TicksPerDay == 1      \* clock ticks in one calendar day
MaxRemoteJobs == 1    \* jobs of the remote source
MaxPrintCount == 2    \* remote prints of one job are counted up to this

\* ------------------------------------------------- constants of the program
BatchLimit == 10      \* get_jobs(status='pending', limit=10)
RetentionDays == 1    \* self.config.get('retention_days', 7), configured as 1
NULL == -1            \* SQL NULL in a TIMESTAMP column

JobIds == 1..MaxJobs
BatchJobIds == 1..MaxBatchJobs
Threads == 1..MaxThreads
RemoteJobIds == 1..MaxRemoteJobs

\* The print servers that poll the same remote source, each an OdooClient.
PrintServers == {"A", "B"}

\* ------------------------------------------------------ values and encoding
\* A Python options argument: None, or a dict (here the set of its items).
PyNone == [none |-> TRUE, items |-> {}]
PyDict(S) == [none |-> FALSE, items |-> S]

\* Python truthiness of an options value: None and {} are falsy.
Truthy(o) == ~o.none /\ o.items # {}

\* The TEXT column 'options': SQL NULL, or the JSON text of a dict.
SqlNullText == [null |-> TRUE, items |-> {}]
JsonText(S) == [null |-> FALSE, items |-> S]

\* json.dumps(options) if options else None
DumpsOptions(o) == IF Truthy(o) THEN JsonText(o.items) ELSE SqlNullText

\* options = None; if job['options']: options = json.loads(job['options'])
\* (the JSON text of a dict is never the empty string, so it is truthy)
LoadsOptions(c) == IF ~c.null THEN PyDict(c.items) ELSE PyNone

\* error_message values
NoMessage == [kind |-> "null", n |-> 0, m |-> 0]
RetryMessage(n, m) == [kind |-> "Retry n/m", n |-> n, m |-> m]
FailedAfterMessage(n) == [kind |-> "Failed after n attempts", n |-> n, m |-> 0]
ExceptionMessage == [kind |-> "str(e)", n |-> 0, m |-> 0]

\* What a caller may pass to submit_job.
Requests ==
  { [printer_name |-> "LaserJet", document_name |-> "a.pdf", document |-> "doc",
     copies |-> 2, options |-> PyDict({<<"duplex", TRUE>>})],
    [printer_name |-> "Zebra", document_name |-> "b.txt", document |-> "doc",
     copies |-> 1, options |-> PyDict({})] }

NoRequest ==
  [printer_name |-> "", document_name |-> "", document |-> "",
   copies |-> 0, options |-> PyNone]

\* get_statistics is not running.
NoStats == [running |-> FALSE, counts |-> {}]

\* ------------------------------------------------------------------- state
VARIABLES
  jobs,          \* table print_jobs: job_id -> row
  issued,        \* number of job ids generated so far (uuid4 never repeats)
  now,           \* the clock (CURRENT_TIMESTAMP, UTC)
  max_retries,   \* config 'max_retries'
  crashes,       \* number of times the server process was killed
  running,       \* JobQueue.running
  worker_thread, \* JobQueue.worker_thread: 0 is None, else a thread
  caller,        \* the thread that calls start()/stop(): "idle" or "join"
  pc,            \* per worker thread: its position in _process_queue
  pending_jobs,  \* per worker thread: the batch fetched by get_jobs
  idx,           \* per worker thread: position of 'job' in pending_jobs
  submitted,     \* history: job_id -> the request passed to submit_job
  calls,         \* history: job_id -> its print_document calls, in order
  stats,         \* get_statistics in flight: the counts its first SELECT read
  remote_claimed,\* remote source: the remote jobs whose claim it has granted
  poll_pc,       \* per print server: its position in the polling loop
  poll_jobs,     \* per print server: the jobs its last fetch returned
  poll_idx,      \* per print server: position of 'job' in that list
  poll_log,      \* per print server: the calls it made in the current cycle
  printed,       \* history: remote job -> times it was sent to the backend
  heartbeat_counter, \* per print server: heartbeat_counter of _poll_loop
  cycles,        \* history: per print server, the iterations it has begun
  heartbeats,    \* history: per print server, the cycles with a heartbeat
  odoo_config,   \* per print server: config['odoo'] given to its OdooClient
  odoo_running,  \* per print server: OdooClient.running
  printer_name   \* per print server: printer_name of _process_job, "" if unset

vars == <<jobs, issued, now, max_retries, crashes, running, worker_thread, caller, pc,
          pending_jobs, idx, submitted, calls, stats, remote_claimed, poll_pc,
          poll_jobs, poll_idx, printer_name, poll_log, printed, heartbeat_counter, cycles,
          heartbeats, odoo_config, odoo_running>>

store == <<jobs, issued>>
control == <<running, worker_thread, caller>>
locals == <<pc, pending_jobs, idx>>
history == <<submitted, calls>>
heartbeat == <<heartbeat_counter, cycles, heartbeats>>
client == <<odoo_config, odoo_running>>
polling == <<remote_claimed, poll_pc, poll_jobs, poll_idx, printer_name, poll_log, printed,
             heartbeat, client>>

Stored == DOMAIN jobs

\* ------------------------------------------------------------ store: rows
\* Mutant: completed_at has the default CURRENT_TIMESTAMP of the other two
\* timestamp columns.
NewRowCompletedAtDefault(id, r, t) ==
  [job_id |-> id,
   printer_name |-> r.printer_name,
   document_name |-> r.document_name,
   document |-> r.document,
   copies |-> r.copies,
   options |-> DumpsOptions(r.options),
   status |-> "pending",
   error_message |-> NoMessage,
   retry_count |-> 0,
   created_at |-> t,
   completed_at |-> t]

\* INSERT INTO print_jobs (...) VALUES (?, ?, ?, ?, ?, ?, 'pending') with the
\* column defaults of CREATE TABLE.
NewRow(id, r, t) ==
  [job_id |-> id,
   printer_name |-> r.printer_name,
   document_name |-> r.document_name,
   document |-> r.document,
   copies |-> r.copies,
   options |-> DumpsOptions(r.options),
   status |-> "pending",
   error_message |-> NoMessage,
   retry_count |-> 0,
   created_at |-> t,
   completed_at |-> NULL]

\* The SET clause of update_job_status, applied to the row that matches.
\* Mutant: the UPDATE for 'completed' does not set completed_at.
update_job_status_row_without_completed_at(row, status, error_message, t) ==
  [row EXCEPT !.status = status, !.error_message = error_message]

\* Mutant: every UPDATE of the status sets completed_at.
update_job_status_row_always_completed_at(row, status, error_message, t) ==
  [row EXCEPT !.status = status, !.completed_at = t,
              !.error_message = error_message]

\* Mutant: a call without error_message leaves the column as it is.
update_job_status_row_keeping_message(row, status, error_message, t) ==
  LET message == IF error_message = NoMessage THEN row.error_message
                                               ELSE error_message
  IN IF status = "completed"
       THEN [row EXCEPT !.status = status, !.completed_at = t,
                        !.error_message = message]
       ELSE [row EXCEPT !.status = status, !.error_message = message]

update_job_status_row(row, status, error_message, t) ==
  IF status = "completed"
    THEN [row EXCEPT !.status = status, !.completed_at = t,
                     !.error_message = error_message]
    ELSE [row EXCEPT !.status = status, !.error_message = error_message]

\* UPDATE print_jobs SET ... WHERE job_id = ?: a missing row matches nothing.
update_job_status(tbl, id, status, error_message, t) ==
  [j \in DOMAIN tbl |->
     IF j = id THEN update_job_status_row(tbl[j], status, error_message, t)
               ELSE tbl[j]]

increment_retry(tbl, id) ==
  [j \in DOMAIN tbl |->
     IF j = id THEN [tbl[j] EXCEPT !.retry_count = @ + 1] ELSE tbl[j]]

\* Mutant: the WHERE clause also lets a processing job be cancelled.
CancellableWhileProcessing(tbl, id) ==
  id \in DOMAIN tbl /\ tbl[id].status \in {"pending", "failed", "processing"}

\* WHERE job_id = ? AND status IN ('pending', 'failed')
Cancellable(tbl, id) ==
  id \in DOMAIN tbl /\ tbl[id].status \in {"pending", "failed"}

\* Mutant: cancelling also resets retry_count.
cancel_job_table_resetting_retries(tbl, id) ==
  [j \in DOMAIN tbl |->
     IF j = id /\ Cancellable(tbl, id)
       THEN [tbl[j] EXCEPT !.status = "cancelled", !.retry_count = 0]
       ELSE tbl[j]]

cancel_job_table(tbl, id) ==
  [j \in DOMAIN tbl |->
     IF j = id /\ Cancellable(tbl, id)
       THEN [tbl[j] EXCEPT !.status = "cancelled"]
       ELSE tbl[j]]

\* ----------------------------------------------------------------- Init
\* config['odoo'] of the default configuration, and one that polls.
OdooUrls == {"", "/", "https://odoo"}
ApiKeys == {"", "key"}
OdooConfigs == [enabled : BOOLEAN, url : OdooUrls, api_key : ApiKeys]
DefaultOdooConfig == [enabled |-> FALSE, url |-> "", api_key |-> ""]
WorkingOdooConfig == [enabled |-> TRUE, url |-> "https://odoo", api_key |-> "key"]

\* JobQueue.__init__ and the histories of the queue.
InitJobQueue ==
  /\ jobs = << >>
  /\ issued = 0
  /\ now = 0
  /\ max_retries \in 0..MaxRetriesCfg
  /\ crashes = 0
  /\ running = FALSE
  /\ worker_thread = 0
  /\ caller = "idle"
  /\ pc = [t \in Threads |-> "none"]
  /\ pending_jobs = [t \in Threads |-> << >>]
  /\ idx = [t \in Threads |-> 0]
  /\ submitted = [j \in JobIds \cup BatchJobIds |-> NoRequest]
  /\ calls = [j \in JobIds \cup BatchJobIds |-> << >>]
  /\ stats = NoStats

\* The remote source and the locals and histories of the polling loops.
InitPollingLocals ==
  /\ remote_claimed = {}
  /\ poll_jobs = [s \in PrintServers |-> << >>]
  /\ poll_idx = [s \in PrintServers |-> 0]
  /\ printer_name = [s \in PrintServers |-> ""]
  /\ poll_log = [s \in PrintServers |-> << >>]
  /\ printed = [j \in RemoteJobIds |-> 0]
  /\ heartbeat_counter = [s \in PrintServers |-> 0]
  /\ cycles = [s \in PrintServers |-> 0]
  /\ heartbeats = [s \in PrintServers |-> {}]

\* The queue and, built from the default configuration, the OdooClient:
\* polling is disabled and no polling thread exists.
Init ==
  /\ InitJobQueue
  /\ InitPollingLocals
  /\ odoo_config = [s \in PrintServers |-> DefaultOdooConfig]
  /\ odoo_running = [s \in PrintServers |-> FALSE]
  /\ poll_pc = [s \in PrintServers |-> "off"]

\* ------------------------------------------------------- client operations
Tick ==
  /\ now < MaxTime
  /\ now' = now + 1
  /\ UNCHANGED <<stats, polling, store, max_retries, crashes, control, locals, history>>

\* The INSERT of submit_job, under a fresh job_id.
InsertJob(r) ==
  LET id == issued + 1
  IN /\ jobs' = [j \in Stored \cup {id} |->
                   IF j = id THEN NewRow(id, r, now) ELSE jobs[j]]
     /\ issued' = id
     /\ submitted' = [submitted EXCEPT ![id] = r]
     /\ UNCHANGED <<stats, polling, now, max_retries, crashes, control, locals, calls>>

submit_job(r) ==
  /\ issued < MaxJobs
  /\ InsertJob(r)

\* cancel_job(id) returning result: return cursor.rowcount > 0
cancel_job(id, result) ==
  /\ result = Cancellable(jobs, id)
  /\ jobs' = cancel_job_table(jobs, id)
  /\ UNCHANGED <<stats, polling, issued, now, max_retries, crashes, control, locals, history>>

\* ------------------------------------------------------- start() and stop()
\* A thread that has not been created or has ended.
Free(t) == pc[t] = "none"

\* start(): while running it only logs a warning; else it sets running and
\* creates and starts a new worker thread.
start ==
  /\ caller = "idle"
  /\ ~running
  /\ \E t \in Threads :
       /\ Free(t)
       /\ \A u \in Threads : Free(u) => t <= u
       /\ worker_thread' = t
       /\ pc' = [pc EXCEPT ![t] = "while"]
  /\ running' = TRUE
  /\ UNCHANGED <<stats, polling, store, now, max_retries, crashes, caller, pending_jobs, idx, history>>

\* stop(): self.running = False, then join(timeout=5) if there is a thread.
stop ==
  /\ caller = "idle"
  /\ running \/ worker_thread # 0
  /\ running' = FALSE
  /\ caller' = IF worker_thread # 0 THEN "join" ELSE "idle"
  /\ UNCHANGED <<stats, polling, store, now, max_retries, crashes, worker_thread, locals, history>>

\* join() returns because the worker thread has ended.
join_returns ==
  /\ caller = "join"
  /\ Free(worker_thread)
  /\ caller' = "idle"
  /\ UNCHANGED <<stats, polling, store, now, max_retries, crashes, running, worker_thread, locals,
                 history>>

\* join(timeout=5) returns after five seconds while the worker is still alive
\* (a print call, or the rest of a batch, may take longer than that).
join_times_out ==
  /\ caller = "join"
  /\ ~Free(worker_thread)
  /\ caller' = "idle"
  /\ UNCHANGED <<stats, polling, store, now, max_retries, crashes, running, worker_thread, locals,
                 history>>

\* --------------------------------------------------------------- get_jobs
Min(a, b) == IF a < b THEN a ELSE b

\* The orders in which SELECT ... ORDER BY created_at DESC may return the
\* rows S: rows with equal created_at come in any order.
NewestFirst(tbl, S) ==
  { s \in [1..Cardinality(S) -> S] :
      /\ \A i, k \in 1..Cardinality(S) : i # k => s[i] # s[k]
      /\ \A i, k \in 1..Cardinality(S) :
           i < k => tbl[s[i]].created_at >= tbl[s[k]].created_at }

\* dict(row): the copy of a row that get_jobs hands out; of its columns the
\* dispatch loop reads these.
RowCopy(row) ==
  [job_id |-> row.job_id,
   printer_name |-> row.printer_name,
   document_name |-> row.document_name,
   document |-> row.document,
   copies |-> row.copies,
   options |-> row.options,
   retry_count |-> row.retry_count]

\* get_jobs(status, limit): the possible results, each a list of row copies.
get_jobs(tbl, status, limit) ==
  LET S == {j \in DOMAIN tbl : tbl[j].status = status}
  IN { [i \in 1..Min(limit, Cardinality(S)) |-> RowCopy(tbl[s[i]])] :
         s \in NewestFirst(tbl, S) }

\* --------------------------------------------------------- cleanup_old_jobs
Date(t) == t \div TicksPerDay

\* The character after the date: created_at is written by CURRENT_TIMESTAMP
\* as 'YYYY-MM-DD HH:MM:SS', the cutoff by isoformat() as
\* 'YYYY-MM-DDTHH:MM:SS.ffffff'.
SepCurrentTimestamp == 32
SepIsoformat == 84

\* created_at < ? on the two texts, compared character by character: the
\* dates decide, and on equal dates the separators do.
CreatedBeforeCutoff(created_at, cutoff) ==
  \/ Date(created_at) < Date(cutoff)
  \/ Date(created_at) = Date(cutoff) /\ SepCurrentTimestamp < SepIsoformat

\* datetime.now() - timedelta(days=retention_days); datetime.now() is local
\* time, and the machine modelled keeps its local time in UTC.
Cutoff(t) == t - RetentionDays * TicksPerDay

Swept(tbl, t) ==
  { j \in DOMAIN tbl :
      /\ tbl[j].status \in {"completed", "failed", "cancelled"}
      /\ CreatedBeforeCutoff(tbl[j].created_at, Cutoff(t)) }

cleanup_old_jobs(tbl, t) ==
  [j \in DOMAIN tbl \ Swept(tbl, t) |-> tbl[j]]

\* ------------------------------------------------------- _process_queue
\* The job the thread is handling: pending_jobs[idx], a copy made by get_jobs.
Job(t) == pending_jobs[t][idx[t]]

BackendResults == {"success", "failure", "raise"}

Goto(t, label) == pc' = [pc EXCEPT ![t] = label]

NextJob(t) ==
  /\ idx' = [idx EXCEPT ![t] = @ + 1]
  /\ Goto(t, "for")

\* while self.running: when it is false the thread ends.
while_running(t) ==
  /\ pc[t] = "while"
  /\ Goto(t, IF running THEN "get_jobs" ELSE "none")
  /\ pending_jobs' = [pending_jobs EXCEPT ![t] = << >>]
  /\ idx' = [idx EXCEPT ![t] = 0]
  /\ UNCHANGED <<stats, polling, store, now, max_retries, crashes, control, history>>

\* pending_jobs = self.get_jobs(status='pending', limit=10)
fetch_pending(t) ==
  /\ pc[t] = "get_jobs"
  /\ \E batch \in get_jobs(jobs, "pending", BatchLimit) :
       pending_jobs' = [pending_jobs EXCEPT ![t] = batch]
  /\ idx' = [idx EXCEPT ![t] = 1]
  /\ Goto(t, "for")
  /\ UNCHANGED <<stats, polling, store, now, max_retries, crashes, control, history>>

\* for job in pending_jobs: if not self.running: break
for_job(t) ==
  /\ pc[t] = "for"
  /\ Goto(t, IF idx[t] <= Len(pending_jobs[t]) /\ running
               THEN "processing" ELSE "cleanup")
  /\ UNCHANGED <<stats, polling, store, now, max_retries, crashes, control, pending_jobs, idx, history>>

\* self.update_job_status(job_id, 'processing')
mark_processing(t) ==
  /\ pc[t] = "processing"
  /\ jobs' = update_job_status(jobs, Job(t).job_id, "processing", NoMessage, now)
  /\ Goto(t, "print")
  /\ UNCHANGED <<stats, polling, issued, now, max_retries, crashes, control, pending_jobs, idx, history>>

\* Mutant: the call leaves copies at its default of 1.
PrintArgumentsDefaultCopies(job) ==
  [printer_name |-> job.printer_name,
   document_name |-> job.document_name,
   document |-> job.document,
   copies |-> 1,
   options |-> LoadsOptions(job.options)]

\* The arguments of printer_manager.print_document, taken from the copy.
PrintArguments(job) ==
  [printer_name |-> job.printer_name,
   document_name |-> job.document_name,
   document |-> job.document,
   copies |-> job.copies,
   options |-> LoadsOptions(job.options)]

\* success = printer_manager.print_document(...): the backend returns True,
\* returns False or None, or raises.
print_document(t) ==
  /\ pc[t] = "print"
  /\ \E result \in BackendResults :
       /\ calls' = [calls EXCEPT ![Job(t).job_id] =
                      Append(@, [result |-> result,
                                 arguments |-> PrintArguments(Job(t))])]
       /\ Goto(t, CASE result = "success" -> "completed"
                    [] result = "failure" -> "increment_retry"
                    [] result = "raise" -> "except")
  /\ UNCHANGED <<stats, polling, store, now, max_retries, crashes, control, pending_jobs, idx,
                 submitted>>

\* if success: self.update_job_status(job_id, 'completed')
mark_completed(t) ==
  /\ pc[t] = "completed"
  /\ jobs' = update_job_status(jobs, Job(t).job_id, "completed", NoMessage, now)
  /\ NextJob(t)
  /\ UNCHANGED <<stats, polling, issued, now, max_retries, crashes, control, pending_jobs, history>>

\* else: self.increment_retry(job_id)
count_retry(t) ==
  /\ pc[t] = "increment_retry"
  /\ jobs' = increment_retry(jobs, Job(t).job_id)
  /\ Goto(t, "retry_or_fail")
  /\ UNCHANGED <<stats, polling, issued, now, max_retries, crashes, control, pending_jobs, idx, history>>

\* Mutant: the branch tests retry_count > max_retries.
RetryOrFailStrictlyGreater(tbl, job, max, t) ==
  LET retry_count == job.retry_count + 1
  IN IF retry_count > max
       THEN update_job_status(tbl, job.job_id, "failed",
                              FailedAfterMessage(retry_count), t)
       ELSE update_job_status(tbl, job.job_id, "pending",
                              RetryMessage(retry_count, max), t)

\* Mutant: retry_count = job['retry_count'], without the + 1.
RetryOrFailStaleCount(tbl, job, max, t) ==
  LET retry_count == job.retry_count
  IN IF retry_count >= max
       THEN update_job_status(tbl, job.job_id, "failed",
                              FailedAfterMessage(retry_count), t)
       ELSE update_job_status(tbl, job.job_id, "pending",
                              RetryMessage(retry_count, max), t)

\* retry_count = job['retry_count'] + 1, and the branch on
\* retry_count >= max_retries that writes 'failed' or 'pending'.
RetryOrFail(tbl, job, max, t) ==
  LET retry_count == job.retry_count + 1
  IN IF retry_count >= max
       THEN update_job_status(tbl, job.job_id, "failed",
                              FailedAfterMessage(retry_count), t)
       ELSE update_job_status(tbl, job.job_id, "pending",
                              RetryMessage(retry_count, max), t)

retry_or_fail(t) ==
  /\ pc[t] = "retry_or_fail"
  /\ jobs' = RetryOrFail(jobs, Job(t), max_retries, now)
  /\ NextJob(t)
  /\ UNCHANGED <<stats, polling, issued, now, max_retries, crashes, control, pending_jobs, history>>

\* except Exception as e: self.update_job_status(job_id, 'failed', str(e))
mark_failed_on_exception(t) ==
  /\ pc[t] = "except"
  /\ jobs' = update_job_status(jobs, Job(t).job_id, "failed", ExceptionMessage, now)
  /\ NextJob(t)
  /\ UNCHANGED <<stats, polling, issued, now, max_retries, crashes, control, pending_jobs, history>>

\* self.cleanup_old_jobs(); time.sleep(2)
sweep(t) ==
  /\ pc[t] = "cleanup"
  /\ jobs' = cleanup_old_jobs(jobs, now)
  /\ Goto(t, "while")
  /\ UNCHANGED <<stats, polling, issued, now, max_retries, crashes, control, pending_jobs, idx, history>>

\* ------------------------------------------------------------ specification
Client ==
  \/ \E r \in Requests : submit_job(r)
  \/ \E id \in JobIds, result \in BOOLEAN : cancel_job(id, result)

Control ==
  \/ start
  \/ stop
  \/ join_returns

Worker(t) ==
  \/ while_running(t)
  \/ fetch_pending(t)
  \/ for_job(t)
  \/ mark_processing(t)
  \/ print_document(t)
  \/ mark_completed(t)
  \/ count_retry(t)
  \/ retry_or_fail(t)
  \/ mark_failed_on_exception(t)
  \/ sweep(t)

\* One dispatcher at a time: a join always lasts until the worker has ended.
Next ==
  \/ Tick
  \/ Client
  \/ Control
  \/ \E t \in Threads : Worker(t)

Spec == Init /\ [][Next]_vars

\* The same queue when a join may time out, so that a start() after stop()
\* can find the earlier worker still alive.
NextRestart ==
  \/ Next
  \/ join_times_out

MaxRetriesRestart == 1    \* largest configured max_retries in SpecRestart

InitRestart == Init /\ max_retries <= MaxRetriesRestart

SpecRestart == InitRestart /\ [][NextRestart]_vars

\* ------------------------------------------- the end of the server process
\* The threads of the process are gone: every worker is a daemon thread and
\* ends with the interpreter, wherever it is; the table is a file and stays.
ThreadsKilled ==
  /\ pc' = [t \in Threads |-> "none"]
  /\ pending_jobs' = [t \in Threads |-> << >>]
  /\ idx' = [t \in Threads |-> 0]
  /\ worker_thread' = 0

\* main(): job_queue.stop() has returned, after its join ended or timed
\* out, and the main thread ends (or calls sys.exit(1)).
process_exit ==
  /\ caller = "idle"
  /\ ~running
  /\ worker_thread # 0
  /\ ThreadsKilled
  /\ UNCHANGED <<stats, polling, store, now, max_retries, crashes, running, caller, history>>

MaxCrashes == 1       \* times the process is killed

\* The process is killed at any point (SIGKILL, power loss); a process
\* started afterwards builds a new JobQueue on the same database file.
crash ==
  /\ crashes < MaxCrashes
  /\ crashes' = crashes + 1
  /\ ThreadsKilled
  /\ running' = FALSE
  /\ caller' = "idle"
  /\ UNCHANGED <<stats, polling, store, now, max_retries, history>>

\* The queue of SpecRestart when the process ends after stop().
NextShutdown ==
  \/ NextRestart
  \/ process_exit

SpecShutdown == InitRestart /\ [][NextShutdown]_vars

\* ------------------------------------------------ store errors in the worker
\* A store operation of the worker raises (sqlite3.OperationalError, for
\* instance "database is locked" or a full disk): the statement has no effect.

\* get_jobs raises: the exception reaches the outer handler of the loop.
fetch_pending_raises(t) ==
  /\ pc[t] = "get_jobs"
  /\ Goto(t, "backoff")
  /\ UNCHANGED <<stats, polling, store, now, max_retries, crashes, control, pending_jobs, idx, history>>

\* update_job_status or increment_retry raises inside the job's try block:
\* the exception reaches the job's handler.
job_write_raises(t) ==
  /\ pc[t] \in {"processing", "completed", "increment_retry", "retry_or_fail"}
  /\ Goto(t, "except")
  /\ UNCHANGED <<stats, polling, store, now, max_retries, crashes, control, pending_jobs, idx, history>>

\* update_job_status(job_id, 'failed', str(e)) raises inside the job's
\* handler: the exception leaves the for loop and reaches the outer handler.
mark_failed_raises(t) ==
  /\ pc[t] = "except"
  /\ Goto(t, "backoff")
  /\ UNCHANGED <<stats, polling, store, now, max_retries, crashes, control, pending_jobs, idx, history>>

\* cleanup_old_jobs fails. Its DELETE or commit raises inside its own try
\* block and reaches its own handler (caught). Or sqlite3.connect, which
\* precedes that try block, raises: the exception reaches the outer handler
\* of the loop (escapes).
SweepFailures == {"caught", "escapes"}

sweep_raises(t) ==
  /\ pc[t] = "cleanup"
  /\ \E failure \in SweepFailures :
       Goto(t, IF failure = "caught" THEN "cleanup_except" ELSE "backoff")
  /\ UNCHANGED <<stats, polling, store, now, max_retries, crashes, control, pending_jobs, idx, history>>

\* cleanup_old_jobs: except Exception as e: logger.error(...); it returns,
\* and the loop sleeps two seconds as after a sweep that worked.
sweep_logs_error(t) ==
  /\ pc[t] = "cleanup_except"
  /\ Goto(t, "while")
  /\ UNCHANGED <<stats, polling, store, now, max_retries, crashes, control, pending_jobs, idx, history>>

\* Mutant: the outer handler ends the thread.
AfterBackoffExits == "none"

\* Where the outer handler leaves the thread: at the loop's test.
AfterBackoff == "while"

\* except Exception as e: logger.error(...); time.sleep(5)
backoff(t) ==
  /\ pc[t] = "backoff"
  /\ Goto(t, AfterBackoff)
  /\ UNCHANGED <<stats, polling, store, now, max_retries, crashes, control, pending_jobs, idx, history>>

StoreErrors(t) ==
  \/ fetch_pending_raises(t)
  \/ job_write_raises(t)
  \/ mark_failed_raises(t)
  \/ sweep_raises(t)
  \/ sweep_logs_error(t)
  \/ backoff(t)

MaxRetriesFaults == 1    \* the configured max_retries in SpecFaults

InitFaults == Init /\ max_retries = MaxRetriesFaults

\* The queue of Spec when the worker's store operations may raise.
NextFaults ==
  \/ Next
  \/ \E t \in Threads : StoreErrors(t)

SpecFaults == InitFaults /\ [][NextFaults]_vars

\* The same with up to MaxBatchJobs jobs and no cancellation, so that a batch
\* can hold more than one job.
submit_batch_job(r) ==
  /\ issued < MaxBatchJobs
  /\ InsertJob(r)

NextBatch ==
  \/ Tick
  \/ \E r \in Requests : submit_batch_job(r)
  \/ Control
  \/ \E t \in Threads : Worker(t)
  \/ \E t \in Threads : StoreErrors(t)

SpecBatch == InitFaults /\ [][NextBatch]_vars


\* ------------------------------------------------------------- properties
Status(j) == jobs[j].status

\* The thread has written 'processing' for its job and not yet the outcome.
Claimed(t) ==
  pc[t] \in {"print", "completed", "increment_retry", "retry_or_fail", "except"}

Results(j) == [i \in 1..Len(calls[j]) |-> calls[j][i].result]

AllFailures(j) == \A i \in 1..Len(calls[j]) : calls[j][i].result = "failure"

SpecEdges ==
  { <<"pending", "processing">>, <<"processing", "completed">>,
    <<"processing", "failed">>, <<"failed", "pending">>,
    <<"pending", "cancelled">>, <<"failed", "cancelled">> }

\* C1: every change of a job's stored status follows one of the edges
\* pending->processing, processing->completed, processing->failed,
\* failed->pending, pending->cancelled, failed->cancelled.
C1_StatusEdges ==
  [][\A j \in DOMAIN jobs \cap DOMAIN jobs' :
       jobs[j].status # jobs'[j].status =>
         <<jobs[j].status, jobs'[j].status>> \in SpecEdges]_vars

\* C2: two dispatch workers never hold the same job claimed at the same
\* time: of two workers that fetched the same pending job only one goes on
\* to the backend, the other skips the job.
C2_OneClaimant ==
  \A t, u \in Threads :
    t # u /\ Claimed(t) /\ Claimed(u) => Job(t).job_id # Job(u).job_id

\* A job that was cancelled while pending: cancel_job leaves error_message
\* alone, and a pending job carries no message or a "Retry n/m" message,
\* a failed job always another one.
CancelledWhilePending(j) ==
  /\ j \in Stored
  /\ Status(j) = "cancelled"
  /\ jobs[j].error_message.kind \in {"null", "Retry n/m"}

\* C3: a job cancelled while pending stays cancelled as long as it is stored
\* and is not handed to the backend: the worker's 'processing' write for it
\* changes nothing and the worker goes on to the next job of its batch.
C3_CancelledPendingStays ==
  [][\A j \in JobIds :
       CancelledWhilePending(j) =>
         /\ j \in DOMAIN jobs' => jobs'[j].status = "cancelled"
         /\ \A t \in Threads :
              pc[t] = "processing" /\ Job(t).job_id = j => pc'[t] # "print"]_vars

\* C4: cancel_job(id) returns true exactly when the stored status is pending
\* or failed, and then the only change is that job's status, to cancelled;
\* for a processing, completed or cancelled job and for an unknown id it
\* returns false and the table is unchanged.
C4_CancelContract ==
  /\ [](\A id \in JobIds :
          LET open == id \in Stored /\ Status(id) \in {"pending", "failed"}
          IN /\ (ENABLED cancel_job(id, TRUE)) <=> open
             /\ (ENABLED cancel_job(id, FALSE)) <=> ~open)
  /\ [][\A id \in JobIds, result \in BOOLEAN :
          cancel_job(id, result) =>
            LET open == id \in Stored /\ Status(id) \in {"pending", "failed"}
            IN /\ open => jobs' = [jobs EXCEPT ![id].status = "cancelled"]
               /\ ~open => jobs' = jobs]_vars

\* C4 witness: a failed job has been cancelled (its message is that of the
\* failure), so a cancel returned true and changed the status.
C4_Witness ==
  \E j \in Stored :
    /\ Status(j) = "cancelled"
    /\ jobs[j].error_message.kind = "Failed after n attempts"

SubmittedArguments(j) ==
  [printer_name |-> submitted[j].printer_name,
   document_name |-> submitted[j].document_name,
   document |-> submitted[j].document,
   copies |-> submitted[j].copies,
   options |-> submitted[j].options]

\* The same, with an empty options dict (or None) arriving as None.
NormalisedArguments(j) ==
  [SubmittedArguments(j) EXCEPT
     !.options = IF submitted[j].options.items = {} THEN PyNone ELSE @]

FirstAttemptSucceeded(j) ==
  Len(calls[j]) >= 1 /\ calls[j][1].result = "success"

\* After the successful first attempt: one invocation, and the job is
\* processing until the worker has written the outcome, then completed with
\* retry_count = 0.
CompletedAfterOneCall(j) ==
  /\ Len(calls[j]) = 1
  /\ j \in Stored =>
       /\ jobs[j].retry_count = 0
       /\ IF \E t \in Threads : pc[t] = "completed" /\ Job(t).job_id = j
            THEN Status(j) = "processing"
            ELSE Status(j) = "completed"

C8_RetryCountSteps ==
  [][/\ \A j \in DOMAIN jobs' \ DOMAIN jobs : jobs'[j].retry_count = 0
     /\ \A j \in DOMAIN jobs \cap DOMAIN jobs' :
          jobs'[j].retry_count # jobs[j].retry_count =>
            /\ jobs'[j].retry_count = jobs[j].retry_count + 1
            /\ \E t \in Threads :
                 /\ pc[t] = "increment_retry" /\ pc'[t] = "retry_or_fail"
                 /\ Job(t).job_id = j
                 /\ calls[j][Len(calls[j])].result = "failure"]_vars

\* C8 witness: a job has been retried and then failed by an exception, with
\* its count still the number of failed attempts.
C8_Witness ==
  \E j \in Stored :
    /\ Results(j) = <<"failure", "raise">>
    /\ Status(j) = "failed"
    /\ jobs[j].retry_count = 1

\* C9: a completed job has a non-null completed_at >= created_at.
C9_CompletedAt ==
  \A j \in Stored :
    Status(j) = "completed" =>
      jobs[j].completed_at # NULL /\ jobs[j].completed_at >= jobs[j].created_at

\* C9 witness: a job completed at a later time than it was created.
C9_Witness ==
  \E j \in Stored :
    Status(j) = "completed" /\ jobs[j].completed_at > jobs[j].created_at

SweepStep(t) == pc[t] = "cleanup" /\ pc'[t] = "while"

\* The jobs the retention rule names at time t: terminal, and created before
\* t minus the retention window.
PastRetention(tbl, t) ==
  { j \in DOMAIN tbl :
      /\ tbl[j].status \in {"completed", "failed", "cancelled"}
      /\ tbl[j].created_at < t - RetentionDays * TicksPerDay }

\* C11: a job leaves the store only in a retention sweep, and a sweep removes
\* exactly the completed, failed and cancelled jobs whose created_at is
\* earlier than now - retention_days: no pending or processing job, and no
\* terminal job younger than the window.
C11_SweepExact ==
  [][/\ DOMAIN jobs \ DOMAIN jobs' # {} => \E t \in Threads : SweepStep(t)
     /\ \A t \in Threads :
          SweepStep(t) => DOMAIN jobs \ DOMAIN jobs' = PastRetention(jobs, now)]_vars

\* ------------------------------------------- polling loop of OdooClient
\* Every request to the remote source is one step.  The remote source is the
\* environment: its claim is atomic, it grants the claim of a job at most
\* once; its list of pending jobs may hold any job, also one that is claimed
\* or done (the completion callback may not have landed).

\* job: the element of the fetched list that _process_job is handling.
PollJob(s) == poll_jobs[s][poll_idx[s]]

\* result.get('jobs', []): lists of remote jobs, each job at most once.
PendingLists ==
  UNION { { q \in [1..n -> RemoteJobIds] :
              \A i, k \in 1..n : i # k => q[i] # q[k] } : n \in 0..MaxRemoteJobs }

\* An element of the 'jobs' list that is no JSON object (a number, say).
NotAnObject == 0

\* The 'jobs' lists an answer may carry: remote jobs, and possibly an
\* element that is no object before them.
FetchedLists ==
  PendingLists \cup {<<NotAnObject>> \o q : q \in PendingLists \ {<< >>}}

\* What _make_request returns for the pending-jobs request: None, or the
\* parsed answer.
FetchResults ==
  {[answer |-> FALSE, jobs |-> << >>]} \cup
  {[answer |-> TRUE, jobs |-> q] : q \in FetchedLists}

\* What _make_request returns for the claim request: None ("none"), an
\* answer whose 'success' is true, or an answer whose 'success' is false or
\* missing ("rejected").
ClaimResults == {"success", "rejected", "none"}

\* Mutant: the guard tests only the 'success' field of an answer.
ClaimSucceededOrNoAnswer(claim_result) == claim_result # "rejected"

\* Mutant: the guard tests only that there is an answer.
ClaimAnswered(claim_result) == claim_result # "none"

\* The negation of: not claim_result or not claim_result.get('success')
ClaimSucceeded(claim_result) == claim_result = "success"

\* A remote call or a print, as recorded in the log of the cycle.
Call(j, call, result) == [job |-> j, call |-> call, result |-> result]

\* self._print_document(printer_name=..., ...), as recorded in the log.
PrintCall(j, printer, result) ==
  [job |-> j, call |-> "print", result |-> result, printer |-> printer]

Logged(s, entry) == poll_log' = [poll_log EXCEPT ![s] = Append(@, entry)]

PollGoto(s, label) == poll_pc' = [poll_pc EXCEPT ![s] = label]

\* _check_and_process_jobs returns or is left by an exception: its locals
\* end, and with them the log of the cycle.
CycleEnds(s) ==
  /\ poll_jobs' = [poll_jobs EXCEPT ![s] = << >>]
  /\ poll_idx' = [poll_idx EXCEPT ![s] = 1]
  /\ poll_log' = [poll_log EXCEPT ![s] = << >>]

\* The for loop of the print server has handled the last job of the list it
\* fetched.
ListDone(s) == poll_pc[s] = "for" /\ poll_idx[s] > Len(poll_jobs[s])

\* return from _process_job: the for loop takes the next job.
NextRemoteJob(s) ==
  /\ poll_idx' = [poll_idx EXCEPT ![s] = @ + 1]
  /\ printer_name' = [printer_name EXCEPT ![s] = ""]
  /\ PollGoto(s, "for")

\* Mutant: a heartbeat in every second iteration.
HeartbeatDueEverySecond(counter) == counter % 2 = 0

\* if heartbeat_counter % 3 == 0
HeartbeatDue(counter) == counter % 3 = 0

\* The head of an iteration of _poll_loop: the heartbeat when it is due,
\* answered or not (_send_heartbeat catches whatever is raised in it), and
\* heartbeat_counter += 1.
poll_loop_head(s, answered) ==
  /\ poll_pc[s] = "sleep"
  /\ odoo_running[s]
  /\ heartbeats' = [heartbeats EXCEPT ![s] =
                      IF HeartbeatDue(heartbeat_counter[s])
                        THEN @ \cup {cycles[s]} ELSE @]
  /\ heartbeat_counter' = [heartbeat_counter EXCEPT ![s] = @ + 1]
  /\ cycles' = [cycles EXCEPT ![s] = @ + 1]
  /\ PollGoto(s, "fetch")
  /\ UNCHANGED <<store, now, max_retries, crashes, control, locals, history, stats, client,
                 remote_claimed, poll_jobs, poll_idx, printer_name, poll_log, printed>>

\* What may come of the HTTP request for the pending jobs: no connection,
\* a timeout, a status other than 200, an HTML page, a body that is not
\* JSON, or a JSON answer; jobs is the list the remote source would send.
FetchFailures == {"connection error", "timeout", "status", "html", "unparsable"}

FetchOutcomes == [kind : FetchFailures \cup {"json"}, jobs : FetchedLists]

\* Mutant: the body of an answer with another status than 200 is parsed too.
make_request_ignoring_status(outcome) ==
  IF outcome.kind \in {"json", "status"}
    THEN [answer |-> TRUE, jobs |-> outcome.jobs]
    ELSE [answer |-> FALSE, jobs |-> << >>]

\* _make_request for the pending-jobs request: the parsed answer of a 200
\* response with a JSON body, None for everything else.
make_request(outcome) ==
  IF outcome.kind = "json"
    THEN [answer |-> TRUE, jobs |-> outcome.jobs]
    ELSE [answer |-> FALSE, jobs |-> << >>]

\* _check_and_process_jobs, up to the for loop, when the request ends in
\* outcome.
check_and_process_jobs_given(s, outcome) ==
  /\ poll_pc[s] = "fetch"
  /\ LET result == make_request(outcome)
     IN /\ result \in FetchResults
        /\ poll_jobs' = [poll_jobs EXCEPT ![s] = result.jobs]
        /\ PollGoto(s, IF result.answer /\ result.jobs # << >>
                         THEN "for" ELSE "sleep")
  /\ poll_idx' = [poll_idx EXCEPT ![s] = 1]
  /\ poll_log' = [poll_log EXCEPT ![s] = << >>]
  /\ UNCHANGED <<store, now, max_retries, crashes, control, locals, history, stats, heartbeat, client,
                 remote_claimed, printer_name, printed>>

\* _check_and_process_jobs, up to the for loop: the fetch of the cycle.
check_and_process_jobs(s) ==
  \E outcome \in FetchOutcomes : check_and_process_jobs_given(s, outcome)

\* for job in jobs: self._process_job(job)
for_remote_job(s) ==
  /\ poll_pc[s] = "for"
  /\ IF poll_idx[s] <= Len(poll_jobs[s])
       THEN PollGoto(s, "printer") /\ UNCHANGED <<poll_jobs, poll_idx, poll_log>>
       ELSE PollGoto(s, "sleep") /\ CycleEnds(s)
  /\ UNCHANGED <<store, now, max_retries, crashes, control, locals, history, stats, heartbeat, client,
                 remote_claimed, printer_name, printed>>

\* job_id = job.get('id') raises AttributeError for an element that is not
\* an object; the statement precedes the try block of _process_job, so the
\* exception leaves _check_and_process_jobs, whose locals end with it, and
\* is logged by _poll_loop, which sleeps.
process_job_raises(s) ==
  /\ poll_pc[s] = "printer"
  /\ PollJob(s) = NotAnObject
  /\ PollGoto(s, "sleep")
  /\ CycleEnds(s)
  /\ UNCHANGED <<store, now, max_retries, crashes, control, locals, history, stats, heartbeat, client,
                 remote_claimed, printer_name, printed>>

\* Names of printers.
PrinterNames == {"HP", "Zebra"}

\* job.get('printer_name'): a name, or "" for a job that names no printer.
JobPrinterNames == PrinterNames \cup {""}

\* What get_printers() may return: the names of the local printers in the
\* order of the enumeration.
PrinterLists ==
  {<< >>} \cup {<<p>> : p \in PrinterNames}
  \cup {pq \in PrinterNames \X PrinterNames : pq[1] # pq[2]}

\* Mutant: the last printer of the enumeration.
LastPrinter(printers) == printers[Len(printers)]

\* printers[0].get('name')
FirstPrinter(printers) == printers[1]

\* The head of _process_job for a job whose printer_name is named, on a
\* print server whose get_printers() would return printers: if not
\* printer_name, the first local printer, or, when there is none, the job is
\* reported failed and _process_job returns.
select_printer_given(s, named, printers) ==
  /\ poll_pc[s] = "printer"
  /\ PollJob(s) \in RemoteJobIds
  /\ printer_name' = [printer_name EXCEPT ![s] =
                        IF named # "" THEN named
                        ELSE IF printers # << >> THEN FirstPrinter(printers)
                        ELSE ""]
  /\ PollGoto(s, IF named # "" \/ printers # << >>
                   THEN "claim" ELSE "update_no_printer")
  /\ UNCHANGED <<store, now, max_retries, crashes, control, locals, history, stats, heartbeat, client,
                 remote_claimed, poll_jobs, poll_idx, poll_log, printed>>

select_printer(s) ==
  \E named \in JobPrinterNames, printers \in PrinterLists :
    select_printer_given(s, named, printers)

\* claim_result = self._make_request('.../claim', method='POST') and the
\* guard after it.  The remote source grants a claim only for a job it has
\* not granted before; an answer that is lost may have been a grant.
claim(s) ==
  /\ poll_pc[s] = "claim"
  /\ \E claim_result \in ClaimResults :
       /\ claim_result = "success" => PollJob(s) \notin remote_claimed
       /\ \/ claim_result \in {"success", "none"}
             /\ remote_claimed' = remote_claimed \cup {PollJob(s)}
          \/ claim_result \in {"rejected", "none"}
             /\ remote_claimed' = remote_claimed
       /\ Logged(s, Call(PollJob(s), "claim", claim_result))
       /\ IF ClaimSucceeded(claim_result)
            THEN PollGoto(s, "content") /\ UNCHANGED <<poll_idx, printer_name>>
            ELSE NextRemoteJob(s)
  /\ UNCHANGED <<store, now, max_retries, crashes, control, locals, history, stats, heartbeat, client,
                 poll_jobs, printed>>

\* The document of the job: a URL to download, inline base64, or neither.
ContentKinds == {"url", "inline", "neither"}

\* content = self._download_content(content_url), base64.b64decode(...) or
\* ValueError; the content may be missing or empty, the decoding may raise.
\* Mutant: without the test 'if not content'.
AfterContentWithoutTest(kind, usable) ==
  CASE kind = "neither" -> "update_no_data"
    [] kind = "inline" /\ ~usable -> "update_exception"
    [] OTHER -> "print"

\* Where _process_job goes after the content: raise ValueError("No document
\* data in job"), raise ValueError("Failed to get job content"), the
\* exception of b64decode, or the print.
AfterContent(kind, usable) ==
  CASE kind = "neither" -> "update_no_data"
    [] kind = "url" /\ ~usable -> "update_no_content"
    [] kind = "inline" /\ ~usable -> "update_exception"
    [] OTHER -> "print"

get_content_given(s, kind, usable) ==
  /\ poll_pc[s] = "content"
  /\ IF kind = "url"
       THEN Logged(s, Call(PollJob(s), "download",
                           IF usable THEN "content" ELSE "none"))
       ELSE poll_log' = poll_log
  /\ PollGoto(s, AfterContent(kind, usable))
  /\ UNCHANGED <<store, now, max_retries, crashes, control, locals, history, stats, heartbeat, client,
                 remote_claimed, poll_jobs, poll_idx, printer_name, printed>>

get_content(s) ==
  \E kind \in ContentKinds, usable \in BOOLEAN : get_content_given(s, kind, usable)

\* success = self._print_document(...): one print_document call of the
\* printer manager; an exception of it is caught and counts as False.
odoo_print_document(s) ==
  /\ poll_pc[s] = "print"
  /\ \E success \in BOOLEAN :
       /\ Logged(s, PrintCall(PollJob(s), printer_name[s],
                               IF success THEN "True" ELSE "False"))
       /\ PollGoto(s, IF success THEN "update_completed" ELSE "update_print_failed")
  /\ printed' = [printed EXCEPT ![PollJob(s)] =
                   IF @ < MaxPrintCount THEN @ + 1 ELSE @]
  /\ UNCHANGED <<store, now, max_retries, crashes, control, locals, history, stats, heartbeat, client,
                 remote_claimed, poll_jobs, poll_idx, printer_name>>

\* The status and error text of the _update_job_status call at each place.
StatusUpdates ==
  [update_no_printer |-> "failed: No printer available",
   update_no_data |-> "failed: No document data in job",
   update_no_content |-> "failed: Failed to get job content",
   update_exception |-> "failed: str(e)",
   update_print_failed |-> "failed: Print failed",
   update_completed |-> "completed"]

\* Mutant: an update that got no answer is sent again.
UpdateDoneWhenAnswered(answered) == answered

\* _update_job_status returns after its one POST, answered or not.
UpdateDone(answered) == TRUE

\* self._update_job_status(job_id, status, error): one POST, answered or
\* not, which is only logged; then _process_job returns.
odoo_update_job_status(s, answered) ==
  /\ poll_pc[s] \in DOMAIN StatusUpdates
  /\ Logged(s, Call(PollJob(s), "update", StatusUpdates[poll_pc[s]]))
  /\ IF UpdateDone(answered)
       THEN NextRemoteJob(s)
       ELSE UNCHANGED <<poll_pc, poll_idx, printer_name>>
  /\ UNCHANGED <<store, now, max_retries, crashes, control, locals, history, stats, heartbeat, client,
                 remote_claimed, poll_jobs, printed>>

Poller(s) ==
  \/ check_and_process_jobs(s)
  \/ for_remote_job(s)
  \/ process_job_raises(s)
  \/ select_printer(s)
  \/ claim(s)
  \/ get_content(s)
  \/ odoo_print_document(s)
  \/ \E answered \in BOOLEAN : odoo_update_job_status(s, answered)

MaxPollCycles == 2    \* iterations the print servers begin in SpecPolling
MaxCycles == 7        \* iterations the print server begins in SpecHeartbeat

CyclesBegun == cycles["A"] + cycles["B"]

NextPolling ==
  \E s \in PrintServers :
    \/ CyclesBegun < MaxPollCycles /\ \E answered \in BOOLEAN : poll_loop_head(s, answered)
    \/ Poller(s)

\* The state after main() has started the polling clients of print servers
\* that are configured to poll.
InitPolling ==
  /\ InitJobQueue
  /\ max_retries = MaxRetriesCfg
  /\ InitPollingLocals
  /\ odoo_config = [s \in PrintServers |-> WorkingOdooConfig]
  /\ odoo_running = [s \in PrintServers |-> TRUE]
  /\ poll_pc = [s \in PrintServers |-> "sleep"]

\* The print servers polling one remote source.
SpecPolling == InitPolling /\ [][NextPolling]_vars

\* One print server polling alone, for up to MaxCycles iterations.
NextHeartbeat ==
  \/ CyclesBegun < MaxCycles /\ \E answered \in BOOLEAN : poll_loop_head("A", answered)
  \/ Poller("A")

SpecHeartbeat == InitPolling /\ [][NextHeartbeat]_vars

\* ------------------------------------------- the life of the polling thread
\* url.rstrip('/') on the urls of OdooUrls.
Rstrip(url) == IF url = "/" THEN "" ELSE url

\* Mutant: the API key is not looked at.
EnabledIgnoringApiKey(config) ==
  config.enabled /\ Rstrip(config.url) # ""

\* OdooClient.enabled after __init__: the 'enabled' setting, cleared when
\* the url or the API key is empty.
Enabled(config) ==
  config.enabled /\ Rstrip(config.url) # "" /\ config.api_key # ""

\* OdooClient.start(): nothing when polling is not enabled or the client is
\* running already; else a new thread, which begins _poll_loop with
\* heartbeat_counter = 0.  A start is modelled only when the thread of an
\* earlier start has ended.
odoo_start(s) ==
  IF Enabled(odoo_config[s]) /\ ~odoo_running[s]
    THEN /\ poll_pc[s] = "off"
         /\ odoo_running' = [odoo_running EXCEPT ![s] = TRUE]
         /\ PollGoto(s, "sleep")
         /\ heartbeat_counter' = [heartbeat_counter EXCEPT ![s] = 0]
         /\ cycles' = [cycles EXCEPT ![s] = 0]
         /\ heartbeats' = [heartbeats EXCEPT ![s] = {}]
         /\ UNCHANGED <<store, now, max_retries, crashes, control, locals, history, stats,
                        odoo_config, remote_claimed, poll_jobs, poll_idx, printer_name, poll_log,
                        printed>>
    ELSE UNCHANGED vars

\* OdooClient.stop(): self.running = False; the join that follows waits at
\* most five seconds and changes nothing.
odoo_stop(s) ==
  /\ odoo_running' = [odoo_running EXCEPT ![s] = FALSE]
  /\ UNCHANGED <<store, now, max_retries, crashes, control, locals, history, stats, heartbeat,
                 odoo_config, remote_claimed, poll_pc, poll_jobs, poll_idx, printer_name, poll_log,
                 printed>>

\* while self.running: the flag is false and the thread ends.
poll_loop_exit(s) ==
  /\ poll_pc[s] = "sleep"
  /\ ~odoo_running[s]
  /\ PollGoto(s, "off")
  /\ UNCHANGED <<store, now, max_retries, crashes, control, locals, history, stats, heartbeat, client,
                 remote_claimed, poll_jobs, poll_idx, printer_name, poll_log, printed>>

\* One print server, built from any configuration, started and stopped at
\* will; the other is left with the default configuration.
InitLifecycle ==
  /\ InitJobQueue
  /\ max_retries = MaxRetriesCfg
  /\ InitPollingLocals
  /\ odoo_config \in {f \in [PrintServers -> OdooConfigs] :
                        f["B"] = DefaultOdooConfig}
  /\ odoo_running = [s \in PrintServers |-> FALSE]
  /\ poll_pc = [s \in PrintServers |-> "off"]

NextLifecycle ==
  \/ odoo_start("A")
  \/ odoo_stop("A")
  \/ poll_loop_exit("A")
  \/ CyclesBegun < MaxPollCycles /\ \E answered \in BOOLEAN : poll_loop_head("A", answered)
  \/ Poller("A")

SpecLifecycle == InitLifecycle /\ [][NextLifecycle]_vars

\* -------------------------------------------------- properties of polling
\* The calls about job j in the log of server s, in order.
CallsAbout(s, j) == SelectSeq(poll_log[s], LAMBDA e : e.job = j)

CallRank(call) ==
  CASE call = "claim" -> 1
    [] call = "download" -> 2
    [] call = "print" -> 3
    [] call = "update" -> 4

\* C13: in every cycle the calls about a job come in the order claim,
\* content fetch, print, status callback, and a download, print or status
\* update about a job comes only after a successful claim of it in that
\* cycle.
C13_ClaimFirst ==
  \A s \in PrintServers, j \in RemoteJobIds :
    LET c == CallsAbout(s, j)
    IN /\ \A i, k \in 1..Len(c) :
            i < k => CallRank(c[i].call) < CallRank(c[k].call)
       /\ \A i \in 1..Len(c) :
            c[i].call # "claim" => c[1] = Call(j, "claim", "success")

\* C14: no remote job is sent to the printer backend more than once, by
\* whatever server and in whatever cycle.
C14_PrintedAtMostOnce ==
  \A j \in RemoteJobIds : printed[j] <= 1

\* C14 witness: a job has been printed once, and a server that did not print
\* in its cycle had its claim of that job rejected.
C14_Witness ==
  \E s \in PrintServers, j \in RemoteJobIds :
    /\ printed[j] = 1
    /\ \A e \in {poll_log[s][i] : i \in 1..Len(poll_log[s])} : e.call # "print"
    /\ Call(j, "claim", "rejected") \in
         {poll_log[s][i] : i \in 1..Len(poll_log[s])}

RequiredFields == <<"printer_name", "document", "document_name">>

FieldStates == {"missing", "empty", "given"}

Submissions ==
  [printer_name : FieldStates, document : FieldStates,
   document_name : FieldStates]

\* field not in data
NotIn(field, data) == data[field] = "missing"

\* The first field of required_fields that the loop finds missing; 0 if none.
FirstMissing(data) ==
  IF \E i \in 1..Len(RequiredFields) : NotIn(RequiredFields[i], data)
    THEN CHOOSE i \in 1..Len(RequiredFields) :
           /\ NotIn(RequiredFields[i], data)
           /\ \A k \in 1..(i - 1) : ~NotIn(RequiredFields[k], data)
    ELSE 0

\* data[field]
FieldValue(data, field, value) == IF data[field] = "empty" THEN "" ELSE value

\* The arguments of the job_queue.submit_job call of the handler.
SubmitArguments(data) ==
  [printer_name |-> FieldValue(data, "printer_name", "LaserJet"),
   document |-> FieldValue(data, "document", "doc"),
   document_name |-> FieldValue(data, "document_name", "a.pdf"),
   copies |-> 1,
   options |-> PyDict({})]

SubmitResponses ==
  {[code |-> 201, text |-> "Print job submitted successfully", field |-> ""]}
  \cup {[code |-> 400, text |-> "Missing required field", field |-> f] :
          f \in {RequiredFields[i] : i \in 1..Len(RequiredFields)}}

\* POST /api/v1/print, answering response.
submit_print_job(data, response) ==
  IF FirstMissing(data) # 0
    THEN /\ response = [code |-> 400, text |-> "Missing required field",
                        field |-> RequiredFields[FirstMissing(data)]]
         /\ UNCHANGED vars
    ELSE /\ response = [code |-> 201, text |-> "Print job submitted successfully",
                        field |-> ""]
         /\ submit_job(SubmitArguments(data))

\* The ids a client may name: those of JobIds and one that is never issued.
ClientJobIds == 1..(MaxJobs + 1)

\* The answer of the cancel handler for each value of job_queue.cancel_job.
CancelResponse(success) ==
  IF success
    THEN [code |-> 200, success |-> TRUE, text |-> "Job cancelled successfully"]
    ELSE [code |-> 404, success |-> FALSE,
          text |-> "Job not found or cannot be cancelled"]

CancelResponses == {CancelResponse(success) : success \in BOOLEAN}

\* POST /api/v1/jobs/<job_id>/cancel, answering response.
api_cancel_job(id, response) ==
  \E success \in BOOLEAN :
    /\ cancel_job(id, success)
    /\ response = CancelResponse(success)

\* SELECT status, COUNT(*) FROM print_jobs GROUP BY status: one row for each
\* status that some job has.
CountByStatus(tbl) ==
  { <<st, Cardinality({j \in DOMAIN tbl : tbl[j].status = st})>> :
      st \in {tbl[j].status : j \in DOMAIN tbl} }

\* get_statistics, first statement: the counts by status.
get_statistics_counts ==
  /\ ~stats.running
  /\ stats' = [running |-> TRUE, counts |-> CountByStatus(jobs)]
  /\ UNCHANGED <<store, now, max_retries, crashes, control, locals, history, polling>>

\* What get_statistics returns: the counts read before and the total of its
\* second statement, SELECT COUNT(*) FROM print_jobs.
StatsResult(counts, tbl) == [counts |-> counts, total |-> Cardinality(DOMAIN tbl)]

\* get_statistics, second statement and return.  Each statement reads the
\* table as it is when it runs: other connections commit between the two.
get_statistics_total ==
  /\ stats.running
  /\ stats' = NoStats
  /\ UNCHANGED <<store, now, max_retries, crashes, control, locals, history, polling>>

Api ==
  \/ \E data \in Submissions, response \in SubmitResponses :
       submit_print_job(data, response)
  \/ \E id \in ClientJobIds, response \in CancelResponses :
       api_cancel_job(id, response)
  \/ get_statistics_counts
  \/ get_statistics_total

NextApi ==
  \/ Next
  \/ Api

\* The queue with its HTTP handlers.
SpecApi == Init /\ [][NextApi]_vars

\* -------------------------------------------- properties of the handlers
\* A submission that the claim calls invalid.
MissingOrEmpty(data) ==
  \E i \in 1..Len(RequiredFields) : data[RequiredFields[i]] \in {"missing", "empty"}

\* C16: a submission in which printer_name, document or document_name is
\* missing or empty is answered with the validation error (400) and creates
\* no job.
C16_InvalidRejected ==
  [][\A data \in Submissions, response \in SubmitResponses :
       submit_print_job(data, response) /\ MissingOrEmpty(data) =>
         response.code = 400 /\ jobs' = jobs]_vars

\* C17: cancelling an id that is not stored and cancelling a stored job
\* whose status does not allow it never get the same answer.
C17_CancelDistinguishes ==
  \A unknown, known \in ClientJobIds, response \in CancelResponses :
    ~ /\ unknown \notin Stored
      /\ known \in Stored
      /\ ~Cancellable(jobs, known)
      /\ ENABLED api_cancel_job(unknown, response)
      /\ ENABLED api_cancel_job(known, response)

RECURSIVE SumCounts(_)
SumCounts(rows) ==
  IF rows = {} THEN 0
  ELSE LET row == CHOOSE r \in rows : TRUE
       IN row[2] + SumCounts(rows \ {row})

\* C20: the total that get_statistics returns is the number of stored jobs
\* and equals the sum of the per-status counts it returns, whatever runs
\* concurrently with it.
C20_TotalIsSum ==
  [][stats.running /\ ~stats'.running =>
       LET result == StatsResult(stats.counts, jobs)
       IN /\ result.total = Cardinality(Stored)
          /\ result.total = SumCounts(result.counts)]_vars

\* C18: a completed job has no error_message, also after retries; a job
\* that the dispatch loop made failed has the message of its last failure:
\* "Failed after n attempts" with n its retry_count after a failed print,
\* the exception text after an exception.
C18_ErrorMessage ==
  \A j \in Stored :
    /\ Status(j) = "completed" => jobs[j].error_message = NoMessage
    /\ Status(j) = "failed" =>
         /\ jobs[j].error_message # NoMessage
         /\ Len(calls[j]) >= 1
         /\ LET last == calls[j][Len(calls[j])].result
            IN jobs[j].error_message =
                 IF last = "raise" THEN ExceptionMessage
                 ELSE FailedAfterMessage(jobs[j].retry_count)

\* C18 witness: a job that was re-queued with "Retry 1/2" has then been
\* printed and is completed without a message.
C18_Witness ==
  \E j \in Stored :
    /\ max_retries = 2
    /\ Status(j) = "completed"
    /\ jobs[j].retry_count = 1
    /\ jobs[j].error_message = NoMessage

\* C19: a stored job that is completed or cancelled keeps its status in
\* every step, whoever takes it; it can only be removed.
C19_TerminalStays ==
  [][\A j \in DOMAIN jobs \cap DOMAIN jobs' :
       jobs[j].status \in {"completed", "cancelled"} =>
         jobs'[j].status = jobs[j].status]_vars

\* ------------------------------------------------------------------ C21
\* The thread draws its batch in this step.
FetchStep(t) == pc[t] = "get_jobs" /\ pc'[t] = "for"

PendingIn(tbl) == {j \in DOMAIN tbl : tbl[j].status = "pending"}

\* The job ids of a batch, in the order in which the for loop handles them.
BatchIds(batch) == [i \in 1..Len(batch) |-> batch[i].job_id]

\* C21: each batch holds the up-to-BatchLimit oldest pending jobs by
\* created_at, and lists them (so the loop dispatches them) in increasing
\* created_at order.
C21_OldestFirst ==
  [][\A t \in Threads :
       FetchStep(t) =>
         LET ids == BatchIds(pending_jobs'[t])
             chosen == {ids[i] : i \in 1..Len(ids)}
         IN /\ Len(ids) = Min(BatchLimit, Cardinality(PendingIn(jobs)))
            /\ chosen \subseteq PendingIn(jobs)
            /\ Cardinality(chosen) = Len(ids)
            /\ \A j \in chosen, k \in PendingIn(jobs) \ chosen :
                 jobs[j].created_at <= jobs[k].created_at
            /\ \A i, k \in 1..Len(ids) :
                 i < k => jobs[ids[i]].created_at <= jobs[ids[k]].created_at]_vars

\* ------------------------------------------------------------------ C23
\* The positions of a thread inside the for loop's body for its job.
JobPositions ==
  {"processing", "print", "completed", "increment_retry", "retry_or_fail",
   "except"}

\* The thread ends its handling of Job(t) in this step.
LeavesJob(t) == pc[t] \in JobPositions /\ pc'[t] \notin JobPositions

\* C23: a job the dispatch loop has moved to processing has left processing
\* (for completed, failed or pending) when the loop leaves the job, whatever
\* the backend call and the store operations did; after an unexpected error
\* it is failed and carries the exception text.
C23_LeavesProcessing ==
  [][\A t \in Threads :
       (/\ LeavesJob(t)
        /\ Job(t).job_id \in Stored
        /\ Status(Job(t).job_id) = "processing")
       => /\ jobs'[Job(t).job_id].status \in {"completed", "failed", "pending"}
          /\ pc[t] = "except" =>
               /\ jobs'[Job(t).job_id].status = "failed"
               /\ jobs'[Job(t).job_id].error_message = ExceptionMessage]_vars

\* ------------------------------------------------------------------ C24
\* C24: when the loop ends its handling of one job of a batch, after a store
\* error or any other exception as after a normal outcome, it goes on to the
\* next job of the same batch, and the step changes no other job.
C24_ErrorConfined ==
  [][\A t \in Threads :
       (LeavesJob(t) /\ idx[t] < Len(pending_jobs[t]))
       => /\ pc'[t] = "for"
          /\ idx'[t] = idx[t] + 1
          /\ pending_jobs'[t] = pending_jobs[t]
          /\ \A j \in Stored \ {Job(t).job_id} :
               j \in DOMAIN jobs' /\ jobs'[j] = jobs[j]]_vars

\* ------------------------------------------------------------------ C25
\* The thread's position changes in this step.
Moves(t) == pc'[t] # pc[t]

\* The thread ends only at the loop's test, and only after stop() has
\* cleared the flag.
ExitsOnlyAfterStop(t) ==
  pc[t] # "none" /\ pc'[t] = "none" => pc[t] = "while" /\ ~running

\* The back-off sleep is followed by the loop's next iteration.
BackoffThenNextIteration(t) ==
  pc[t] = "backoff" /\ Moves(t) => pc'[t] = "while"

\* C25, as stated: the worker exits only after stop(); an exception in the
\* batch fetch, in a job's handling or in the retention sweep is logged and
\* followed by the back-off sleep and then by the next iteration.
C25_BackoffAfterAnyException ==
  [][\A t \in Threads :
       /\ ExitsOnlyAfterStop(t)
       /\ BackoffThenNextIteration(t)
       /\ pc[t] = "get_jobs" /\ Moves(t) => pc'[t] \in {"for", "backoff"}
       /\ pc[t] \in {"except", "cleanup_except"} /\ Moves(t)
            => pc'[t] = "backoff"]_vars

\* C25, amended: the worker exits only after stop(). An exception of the
\* batch fetch, one raised by the handler of a job, and a failing connect
\* of the sweep are logged by the loop and followed by the back-off sleep
\* and the next iteration. An exception in a job's handling is logged by the
\* job's handler, which marks the job failed and goes on to the next job of
\* the batch without back-off; an exception inside the sweep is logged by
\* the sweep and followed by the ordinary sleep and the next iteration.
C25_BackoffAfterLoopException ==
  [][\A t \in Threads :
       /\ ExitsOnlyAfterStop(t)
       /\ BackoffThenNextIteration(t)
       /\ pc[t] = "get_jobs" /\ Moves(t) => pc'[t] \in {"for", "backoff"}
       /\ pc[t] = "except" /\ Moves(t)
            => \/ pc'[t] = "backoff" /\ jobs' = jobs
               \/ /\ pc'[t] = "for"
                  /\ idx'[t] = idx[t] + 1
                  /\ Job(t).job_id \in Stored
                       => jobs'[Job(t).job_id].status = "failed"
       /\ pc[t] = "cleanup" /\ Moves(t)
            => pc'[t] \in {"while", "cleanup_except", "backoff"}
       /\ pc[t] = "cleanup_except" /\ Moves(t) => pc'[t] = "while"]_vars

\* A worker is in the back-off sleep after the handler of its job raised,
\* the job still processing; and stop() has not been called.
C25_Witness ==
  \E t \in Threads :
    /\ pc[t] = "backoff"
    /\ running
    /\ idx[t] \in 1..Len(pending_jobs[t])
    /\ Job(t).job_id \in Stored
    /\ Status(Job(t).job_id) = "processing"

\* ------------------------------------------------------------------ C26
NoJobProcessing == \A j \in Stored : Status(j) # "processing"

\* C26: after stop() the worker finishes the work it has in flight and
\* exits: no worker ends between its write of processing for a job and its
\* write of that job's outcome, and once every worker has ended no job is in
\* status processing.
C26_ExitsWithNothingInFlight ==
  /\ [][\A t \in Threads : Claimed(t) => pc'[t] # "none"]_vars
  /\ []((\A t \in Threads : Free(t)) => NoJobProcessing)

\* ------------------------------------------------------------------ C27
\* The server runs its queue, is killed at most MaxCrashes times and is
\* started again each time (main() calls job_queue.start()); the worker
\* thread keeps being scheduled.
NextCrash ==
  \/ Tick
  \/ \E r \in Requests : submit_job(r)
  \/ start
  \/ \E t \in Threads : Worker(t)
  \/ crash

SpecCrash ==
  /\ InitFaults
  /\ [][NextCrash]_vars
  /\ WF_vars(start)
  /\ WF_vars(\E t \in Threads : Worker(t))

\* The kill and restart lose no job.
CrashKeepsJobs == [][crashes' # crashes => jobs' = jobs]_vars

\* A pending job is dispatched, also when the process was killed meanwhile.
PendingDispatched ==
  \A j \in JobIds :
    (j \in Stored /\ Status(j) = "pending")
      ~> (j \notin Stored \/ Status(j) # "pending")

\* A job does not stay in processing forever.
ProcessingEnds ==
  \A j \in JobIds :
    (j \in Stored /\ Status(j) = "processing")
      ~> (j \notin Stored \/ Status(j) # "processing")

\* C27: when the process is killed at any point and started again, every
\* job stored before is still in the store, the pending jobs are dispatched
\* again, and a job that was in processing when the process was killed does
\* not remain in processing forever.
C27_RestartRecovers ==
  /\ CrashKeepsJobs
  /\ PendingDispatched
  /\ ProcessingEnds

\* ------------------------------------------------------------------ C28
\* config['printer']['default_printer']: None ("" here) or a printer's name.
\* Nothing on the dispatch path reads it, so it is no part of the state.
DefaultPrinters == {"", "LaserJet"}

\* The job was submitted with an empty printer_name.
PrinterUnset(j) == submitted[j] # NoRequest /\ submitted[j].printer_name = ""

\* C28: whatever default printer is configured, every backend call for a
\* job whose printer_name is unset names that default printer; when none is
\* configured the job is not sent to the backend and is never completed.
C28_DefaultPrinter ==
  \A default_printer \in DefaultPrinters :
    \A j \in JobIds :
      PrinterUnset(j) =>
        IF default_printer # ""
          THEN \A i \in 1..Len(calls[j]) :
                 calls[j][i].arguments.printer_name = default_printer
          ELSE /\ calls[j] = << >>
               /\ j \in Stored => Status(j) # "completed"

\* ------------------------------------------------------------------ C29
\* The server's claim of job j was granted in the cycle of its log.
ClaimedInCycle(s, j) ==
  \E i \in 1..Len(poll_log[s]) : poll_log[s][i] = Call(j, "claim", "success")

\* The status updates about job j in the log of server s, in order.
UpdatesAbout(s, j) == SelectSeq(CallsAbout(s, j), LAMBDA e : e.call = "update")

\* _process_job has returned for job j of the fetched list, or the cycle is
\* over.
Handled(s, j) ==
  \/ poll_pc[s] \in {"sleep", "fetch"}
  \/ \E i \in 1..Len(poll_jobs[s]) : poll_jobs[s][i] = j /\ poll_idx[s] > i

\* What a status update after a granted claim may carry.
OutcomesAfterClaim ==
  {StatusUpdates[place] : place \in DOMAIN StatusUpdates \ {"update_no_printer"}}

\* The server makes a status-update call in this step.
UpdateStep(s) ==
  /\ poll_pc[s] \in DOMAIN StatusUpdates
  /\ Len(poll_log'[s]) = Len(poll_log[s]) + 1

\* C29: for a remote job whose claim was granted, the server makes exactly
\* one status update in that cycle, carrying completed or failed, whatever
\* path the job took after the claim; after the update, answered or not,
\* the loop goes on to the next job: the update is not sent again.
C29_OneStatusUpdate ==
  /\ [](\A s \in PrintServers, j \in RemoteJobIds :
          ClaimedInCycle(s, j) =>
            /\ Len(UpdatesAbout(s, j)) <= 1
            /\ Handled(s, j) => Len(UpdatesAbout(s, j)) = 1
            /\ \A i \in 1..Len(UpdatesAbout(s, j)) :
                 UpdatesAbout(s, j)[i].result \in OutcomesAfterClaim)
  /\ [][\A s \in PrintServers :
          UpdateStep(s) =>
            poll_pc'[s] = "for" /\ poll_idx'[s] = poll_idx[s] + 1]_vars

\* C29 witness: a server has finished a list in which its claim was granted,
\* the print failed and it reported the job failed, once.
C29_Witness ==
  \E s \in PrintServers, j \in RemoteJobIds :
    /\ ListDone(s)
    /\ \E printer \in PrinterNames :
         poll_log[s] = <<Call(j, "claim", "success"), PrintCall(j, printer, "False"),
                         Call(j, "update", "failed: Print failed")>>

\* ------------------------------------------------------------------ C30
\* The server begins an iteration of its polling loop in this step.
CycleBegins(s) == cycles'[s] = cycles[s] + 1

\* C30: of the cycles a server has begun, numbered from 0, those with a
\* heartbeat are cycles 0, 3, 6, ..., whatever happened to the job checks
\* of earlier cycles; and the head of a cycle, its heartbeat answered or
\* not, is followed by that cycle's fetch of the pending jobs.
C30_HeartbeatEveryThird ==
  /\ [](\A s \in PrintServers :
          heartbeats[s] = {n \in 0..(cycles[s] - 1) : n % 3 = 0})
  /\ [][\A s \in PrintServers : CycleBegins(s) => poll_pc'[s] = "fetch"]_vars
  /\ [](\A s \in PrintServers :
          poll_pc[s] = "fetch" => ENABLED check_and_process_jobs(s))

\* C30 witness: a server is about to fetch in its fifth or a later cycle and
\* has sent the heartbeat of cycle 3.
C30_Witness ==
  \E s \in PrintServers :
    /\ poll_pc[s] = "fetch"
    /\ cycles[s] >= 5
    /\ 3 \in heartbeats[s]
    /\ heartbeat_counter[s] = cycles[s]

\* ------------------------------------------------------------------ C31
\* The outcomes of the pending-jobs request that are failures.
FailedFetches == {outcome \in FetchOutcomes : outcome.kind \in FetchFailures}

\* C31: when the pending-jobs fetch fails (no connection, timeout, status
\* other than 200, HTML, unparsable body), the cycle ends there with no
\* claim, print or status update and nothing changed at the remote source;
\* the polling thread ends only after stop(), and while the client runs the
\* sleeping thread can begin its next iteration.
C31_FailedFetchEndsCycle ==
  /\ [][\A s \in PrintServers, outcome \in FailedFetches :
          check_and_process_jobs_given(s, outcome) =>
            /\ poll_pc'[s] = "sleep"
            /\ poll_log'[s] = << >>
            /\ remote_claimed' = remote_claimed
            /\ printed' = printed]_vars
  /\ [][\A s \in PrintServers :
          poll_pc[s] # "off" /\ poll_pc'[s] = "off" => ~odoo_running[s]]_vars
  /\ [](\A s \in PrintServers :
          poll_pc[s] = "sleep" /\ odoo_running[s] =>
            ENABLED poll_loop_head(s, TRUE))

\* C31 witness: a running server sleeps after a cycle whose fetch got no
\* usable answer: it has begun the cycle and made no call about any job.
C31_Witness ==
  \E s \in PrintServers :
    /\ poll_pc[s] = "sleep"
    /\ odoo_running[s]
    /\ cycles[s] >= 1
    /\ poll_jobs[s] = << >>
    /\ poll_log[s] = << >>

\* ------------------------------------------------------------------ C32
\* The positions of a polling thread inside _process_job.
RemoteJobPositions ==
  {"printer", "claim", "content", "print"} \cup DOMAIN StatusUpdates

\* _process_job ends for the job in this step.
LeavesRemoteJob(s) ==
  poll_pc[s] \in RemoteJobPositions /\ poll_pc'[s] \notin RemoteJobPositions

\* C32: however the handling of one job of a fetched list ends, with an
\* error or not, the loop goes on to the next job of that list in the same
\* cycle.
C32_RestOfListProcessed ==
  [][\A s \in PrintServers :
       (LeavesRemoteJob(s) /\ poll_idx[s] < Len(poll_jobs[s]))
       => /\ poll_pc'[s] = "for"
          /\ poll_idx'[s] = poll_idx[s] + 1
          /\ poll_jobs'[s] = poll_jobs[s]]_vars

\* ------------------------------------------------------------------ C33
\* The places of the status update after a claim whose content was missing
\* or could not be obtained or decoded.
NoContentUpdates == {"update_no_data", "update_no_content", "update_exception"}

\* The calls of server s about its current job, in the log of the cycle.
CallsAboutJob(s) == CallsAbout(s, PollJob(s))

\* C33: a claimed remote job with neither a content URL nor inline content
\* goes to the status update "failed: No document data in job", one whose
\* content cannot be obtained or decoded to a failed update with its reason;
\* such a job has not been printed when the update is sent, the update is
\* what the place says, and the job is not printed later either.
C33_NoContentNeverPrinted ==
  /\ [][\A s \in PrintServers, usable \in BOOLEAN :
          /\ get_content_given(s, "neither", usable)
               => poll_pc'[s] = "update_no_data"
          /\ get_content_given(s, "url", FALSE)
               => poll_pc'[s] = "update_no_content"
          /\ get_content_given(s, "inline", FALSE)
               => poll_pc'[s] = "update_exception"]_vars
  /\ [](\A s \in PrintServers :
          poll_pc[s] \in NoContentUpdates =>
            /\ printed[PollJob(s)] = 0
            /\ PollJob(s) \in remote_claimed
            /\ CallsAboutJob(s)[1] = Call(PollJob(s), "claim", "success")
            /\ \A i \in 1..Len(CallsAboutJob(s)) :
                 CallsAboutJob(s)[i].call \notin {"print", "update"})
  /\ [][\A s \in PrintServers :
          (poll_pc[s] \in NoContentUpdates /\ UpdateStep(s))
          => /\ poll_log'[s][Len(poll_log'[s])] =
                  Call(PollJob(s), "update", StatusUpdates[poll_pc[s]])
             /\ StatusUpdates["update_no_data"] = "failed: No document data in job"
             /\ printed' = printed]_vars
  /\ [](\A s \in PrintServers, j \in RemoteJobIds :
          (\E i \in 1..Len(poll_log[s]) :
             /\ poll_log[s][i].job = j
             /\ poll_log[s][i].call = "update"
             /\ poll_log[s][i].result \in
                  {StatusUpdates[place] : place \in NoContentUpdates})
          => printed[j] = 0)

\* C33 witness: a server has finished a list in which its claim was granted
\* and the job carried no document: it reported that and printed nothing.
C33_Witness ==
  \E s \in PrintServers, j \in RemoteJobIds :
    /\ ListDone(s)
    /\ poll_log[s] = <<Call(j, "claim", "success"),
                       Call(j, "update", "failed: No document data in job")>>
    /\ printed[j] = 0

\* ------------------------------------------------------------------ C34
\* The last call in the log of the server after this step.
LastLogged(s) == poll_log'[s][Len(poll_log'[s])]

Configured(s) ==
  /\ odoo_config[s].enabled
  /\ odoo_config[s].url # ""
  /\ odoo_config[s].api_key # ""

\* The server has made no call to the remote source: it has begun no
\* iteration, sent no heartbeat and logged no call about a job.
NoRemoteCall(s) ==
  /\ cycles[s] = 0
  /\ heartbeats[s] = {}
  /\ poll_log[s] = << >>

\* C35: a polling thread exists only on a server whose odoo configuration
\* is enabled with a non-empty URL and a non-empty API key; on any other
\* server start() changes nothing, the client never runs and no heartbeat,
\* fetch, claim or status call is made.
C35_StartedOnlyWhenConfigured ==
  /\ [](\A s \in PrintServers :
          (poll_pc[s] # "off" \/ odoo_running[s]) => Configured(s))
  /\ [][\A s \in PrintServers :
          (~Configured(s) /\ odoo_start(s)) => UNCHANGED vars]_vars
  /\ [](\A s \in PrintServers :
          ~Configured(s) =>
            /\ ~odoo_running[s]
            /\ poll_pc[s] = "off"
            /\ NoRemoteCall(s))

\* C35 witness: a configured server was started and its thread has begun an
\* iteration of the polling loop.
C35_Witness ==
  \E s \in PrintServers :
    /\ Configured(s)
    /\ odoo_running[s]
    /\ poll_pc[s] = "fetch"
    /\ cycles[s] = 1

\* ------------------------------------------------------------------ C36
\* The threads that are inside an iteration of the loop of _process_queue:
\* past the test of self.running, fetching, handling a job or sweeping.
Dispatchers == {t \in Threads : pc[t] \notin {"none", "while"}}

\* C36: over any sequence of start() and stop() calls at most one thread is
\* processing the queue.
C36_OneDispatcher == Cardinality(Dispatchers) <= 1

\* ------------------------------------------------------------------ C37
\* The job is handed to the backend in this step.
HandedToBackend(j) == Len(calls'[j]) = Len(calls[j]) + 1

\* C37 as stated: for any configured max_retries, no job is handed to the
\* backend more than max_retries times.
C37_AtMostMaxRetriesAnyConfig ==
  \A j \in JobIds : Len(calls[j]) <= max_retries

\* C37 amended: with one dispatch worker and max_retries >= 1, no job is
\* handed to the backend more than max_retries times; a job is handed to the
\* backend only while every earlier call for it returned failure (none
\* returned success, none raised) and it is processing; and a failed job
\* never goes back to pending or processing.
C37_AtMostMaxRetries ==
  /\ [](max_retries >= 1 => \A j \in JobIds : Len(calls[j]) <= max_retries)
  /\ [][\A j \in JobIds :
          HandedToBackend(j) =>
            /\ AllFailures(j)
            /\ j \in Stored
            /\ Status(j) = "processing"]_vars
  /\ [][\A j \in DOMAIN jobs \cap DOMAIN jobs' :
          Status(j) = "failed" => jobs'[j].status \in {"failed", "cancelled"}]_vars

\* C37 witness: with max_retries = 2 a job failed once and then succeeded,
\* and the worker is fetching its next batch.
C37_Witness ==
  /\ max_retries = 2
  /\ \E j \in Stored, t \in Threads :
       /\ Results(j) = <<"failure", "success">>
       /\ Status(j) = "completed"
       /\ pc[t] = "get_jobs"

\* ------------------------------------------------------------------ C38
\* The queue whose dispatch loop is started and never stopped: jobs are
\* submitted and cancelled, the backend returns from every call, and a store
\* operation of the worker may raise.
NextLive ==
  \/ Tick
  \/ Client
  \/ start
  \/ \E t \in Threads : Worker(t)
  \/ \E t \in Threads : StoreErrors(t)

\* The loop is started and its thread keeps being scheduled (its next
\* statement is executed, whether it works or raises); store errors are
\* transient: a store operation that the worker tries again and again
\* eventually works.
FairLive ==
  /\ WF_vars(start)
  /\ \A t \in Threads :
       /\ WF_vars(Worker(t) \/ StoreErrors(t))
       /\ SF_vars(fetch_pending(t))
       /\ SF_vars(mark_processing(t))
       /\ SF_vars(mark_completed(t))
       /\ SF_vars(count_retry(t))
       /\ SF_vars(retry_or_fail(t))
       /\ SF_vars(mark_failed_on_exception(t))
       /\ SF_vars(sweep(t))

SpecLive == InitFaults /\ [][NextLive]_vars /\ FairLive

Terminal == {"completed", "failed", "cancelled"}

\* C38: while the loop keeps running and the backend returns, every
\* submitted job eventually is completed, failed or cancelled (or has been
\* removed after that): none stays pending or processing forever.
C38_EveryJobEnds ==
  \A j \in JobIds :
    (j \in Stored) ~> (j \notin Stored \/ Status(j) \in Terminal)

\* ------------------------------------------------- the API-key decorator
\* request.headers.get('X-API-Key'): << >> is None, <<k>> the value k.
NoApiKey == << >>

ApiKeyHeaders == {NoApiKey, <<"">>, <<"key">>, <<"other-key">>}

\* VALID_API_KEYS, from config['security']['api_keys'].
ValidApiKeys == {"key"}

KeyRequired == [code |-> 401, text |-> "API key required"]
InvalidKey == [code |-> 403, text |-> "Invalid API key"]

\* Mutant: any key that is not empty is let through.
require_api_key_unchecked(api_key, response, handler) ==
  IF api_key = NoApiKey \/ api_key[1] = ""
    THEN response = KeyRequired /\ UNCHANGED vars
    ELSE handler

\* decorated_function of require_api_key around handler, answering response:
\* 401 when the header is missing or empty ('if not api_key'), 403 when the
\* key is not in VALID_API_KEYS, else the handler.
require_api_key(api_key, response, handler) ==
  IF api_key = NoApiKey \/ api_key[1] = ""
    THEN response = KeyRequired /\ UNCHANGED vars
    ELSE IF api_key[1] \notin ValidApiKeys
           THEN response = InvalidKey /\ UNCHANGED vars
           ELSE handler

\* GET /api/v1/jobs: the list of job_queue.get_jobs; the table is only read.
ListResponses ==
  {[code |-> 200, count |-> n] : n \in 0..MaxJobs}

list_jobs(response) ==
  /\ response = [code |-> 200, count |-> Cardinality(Stored)]
  /\ UNCHANGED vars

\* GET /api/v1/jobs/<job_id>: the job, or 404 'Job not found'.
JobResponses ==
  {[code |-> 200, text |-> ""], [code |-> 404, text |-> "Job not found"]}

get_job(id, response) ==
  /\ response = IF id \in Stored
                  THEN [code |-> 200, text |-> ""]
                  ELSE [code |-> 404, text |-> "Job not found"]
  /\ UNCHANGED vars

\* GET /api/v1/stats: the handler begins job_queue.get_statistics.
StatsResponses == {[code |-> 200, text |-> ""]}

get_statistics(response) ==
  /\ response = [code |-> 200, text |-> ""]
  /\ get_statistics_counts

Rejections == {KeyRequired, InvalidKey}

\* The protected endpoints of the queue, each behind require_api_key.
protected_submit_print_job(api_key, data, response) ==
  require_api_key(api_key, response, submit_print_job(data, response))

protected_cancel_job(api_key, id, response) ==
  require_api_key(api_key, response, api_cancel_job(id, response))

protected_list_jobs(api_key, response) ==
  require_api_key(api_key, response, list_jobs(response))

protected_get_job(api_key, id, response) ==
  require_api_key(api_key, response, get_job(id, response))

protected_get_statistics(api_key, response) ==
  require_api_key(api_key, response, get_statistics(response))

\* The bodies of the submissions sent here: those that carry a
\* document_name, empty or not.
KeyedSubmissions ==
  {data \in Submissions : data.document_name # "missing"}

\* A request to a protected endpoint with the header api_key, answered
\* response.
ProtectedRequest(api_key, response) ==
  \/ \E data \in KeyedSubmissions : protected_submit_print_job(api_key, data, response)
  \/ \E id \in ClientJobIds : protected_cancel_job(api_key, id, response)
  \/ protected_list_jobs(api_key, response)
  \/ \E id \in ClientJobIds : protected_get_job(api_key, id, response)
  \/ protected_get_statistics(api_key, response)

ProtectedResponses ==
  Rejections \cup SubmitResponses \cup CancelResponses \cup ListResponses
  \cup JobResponses \cup StatsResponses

\* Clients send requests with and without keys; the dispatch loop is not
\* started.
NextAuth ==
  \/ Tick
  \/ \E api_key \in ApiKeyHeaders, response \in ProtectedResponses :
       ProtectedRequest(api_key, response)
  \/ get_statistics_total

\* The queue behind its protected HTTP endpoints.
SpecAuth == InitFaults /\ [][NextAuth]_vars

\* ------------------------------------------------------------------ C39
\* The header carries no key that is in the configured list.
Unauthorized(api_key) == api_key = NoApiKey \/ api_key[1] \notin ValidApiKeys

\* Every answer the request can get has this code.
AnsweredOnly(api_key, code) ==
  /\ \E response \in ProtectedResponses : ENABLED ProtectedRequest(api_key, response)
  /\ \A response \in ProtectedResponses :
       ENABLED ProtectedRequest(api_key, response) => response.code = code

\* C39 as stated: a request without the header is answered 401, one with any
\* key that is not in the configured list is answered 403.
C39_UnknownKeyForbidden ==
  /\ AnsweredOnly(NoApiKey, 401)
  /\ \A api_key \in ApiKeyHeaders \ {NoApiKey} :
       api_key[1] \notin ValidApiKeys => AnsweredOnly(api_key, 403)

\* C39 amended: a request without the header or with an empty one is
\* answered 401, one with a non-empty key that is not in the configured list
\* 403; in both cases no handler runs and nothing changes, the job store
\* included.
C39_RejectedWithoutHandler ==
  /\ [](AnsweredOnly(NoApiKey, 401) /\ AnsweredOnly(<<"">>, 401))
  /\ [](\A api_key \in ApiKeyHeaders \ {NoApiKey, <<"">>} :
          api_key[1] \notin ValidApiKeys => AnsweredOnly(api_key, 403))
  /\ [][\/ UNCHANGED vars
        \/ \A api_key \in ApiKeyHeaders, response \in ProtectedResponses :
             Unauthorized(api_key) => ~ProtectedRequest(api_key, response)]_vars

\* C39 witness: a job has been submitted through the protected endpoint and
\* is pending, so that a cancel with the valid key would change it, and the
\* same cancel with an unknown key is answered 403.
C39_Witness ==
  \E j \in Stored :
    /\ Status(j) = "pending"
    /\ ENABLED protected_cancel_job(<<"key">>, j, CancelResponse(TRUE))
    /\ ENABLED protected_cancel_job(<<"other-key">>, j, InvalidKey)
    /\ ~ENABLED protected_cancel_job(<<"other-key">>, j, CancelResponse(TRUE))

====
